---- MODULE Spec2Model ----
(***************************************************************************)
(* Model of the rule-based diagnoser of src/static/Electrical.py           *)
(* (class FaultDiagnosis).                                                 *)
(*                                                                         *)
(* Numbers.  The fields of an ElectricalReading are Python floats.         *)
(*  - voltage, current, frequency and temperature are only compared with   *)
(*    thresholds; the model draws them from integer-valued floats and      *)
(*    keeps them as integers (the comparisons are exact).                  *)
(*  - power_factor is only compared with the literals 0.85 and 0.7; the    *)
(*    model keeps it in hundredths (0.85 is 85).  Parsing a two-decimal    *)
(*    literal to the nearest double is monotone and injective, so the      *)
(*    comparisons agree.                                                   *)
(*  - the phase voltages go through float arithmetic (add, subtract,       *)
(*    divide, multiply), which rounds.  They are modelled as IEEE 754      *)
(*    binary64 values with round-half-to-even, on arbitrary-precision      *)
(*    naturals (sequences of limbs), for finite values away from overflow  *)
(*    and underflow.                                                       *)
(***************************************************************************)
EXTENDS Integers, Sequences, FiniteSets, TLC

Range(seq) == { seq[i] : i \in DOMAIN seq }
Max(a, b) == IF a >= b THEN a ELSE b
Min(a, b) == IF a <= b THEN a ELSE b

----------------------------------------------------------------------------
(* Arbitrary-precision naturals: little-endian sequences of limbs in       *)
(* 0..LimbBase-1 without high zero limbs; <<>> is 0.                       *)

LimbBits == 15
LimbBase == 2^LimbBits

RECURSIVE BNorm(_)
BNorm(a) ==
  IF a = <<>> THEN a
  ELSE IF a[Len(a)] = 0 THEN BNorm(SubSeq(a, 1, Len(a) - 1)) ELSE a

RECURSIVE BFromNat(_)
BFromNat(n) ==
  IF n = 0 THEN <<>> ELSE <<n % LimbBase>> \o BFromNat(n \div LimbBase)

BLimb(a, i) == IF i <= Len(a) THEN a[i] ELSE 0

RECURSIVE BAddFrom(_, _, _, _)
BAddFrom(a, b, i, carry) ==
  IF i > Len(a) /\ i > Len(b)
    THEN (IF carry = 0 THEN <<>> ELSE <<carry>>)
    ELSE LET s == BLimb(a, i) + BLimb(b, i) + carry
         IN  <<s % LimbBase>> \o BAddFrom(a, b, i + 1, s \div LimbBase)

BAdd(a, b) == BAddFrom(a, b, 1, 0)

\* a - b for a >= b
RECURSIVE BSubFrom(_, _, _, _)
BSubFrom(a, b, i, borrow) ==
  IF i > Len(a) THEN <<>>
  ELSE LET d == BLimb(a, i) - BLimb(b, i) - borrow
       IN  IF d < 0 THEN <<d + LimbBase>> \o BSubFrom(a, b, i + 1, 1)
                    ELSE <<d>> \o BSubFrom(a, b, i + 1, 0)

BSub(a, b) == BNorm(BSubFrom(a, b, 1, 0))

\* -1, 0, 1 as a < b, a = b, a > b
RECURSIVE BCmpFrom(_, _, _)
BCmpFrom(a, b, i) ==
  IF i = 0 THEN 0
  ELSE IF a[i] < b[i] THEN -1
  ELSE IF a[i] > b[i] THEN 1
  ELSE BCmpFrom(a, b, i - 1)

BCmp(a, b) ==
  IF Len(a) < Len(b) THEN -1
  ELSE IF Len(a) > Len(b) THEN 1
  ELSE BCmpFrom(a, b, Len(a))

\* a * k for 0 <= k < LimbBase
RECURSIVE BMulSmallFrom(_, _, _, _)
BMulSmallFrom(a, k, i, carry) ==
  IF i > Len(a) THEN BFromNat(carry)
  ELSE LET p == a[i] * k + carry
       IN  <<p % LimbBase>> \o BMulSmallFrom(a, k, i + 1, p \div LimbBase)

BMulSmall(a, k) == BNorm(BMulSmallFrom(a, k, 1, 0))

\* floor(a / k) for 0 < k < LimbBase, from the high limb down
RECURSIVE BDivSmallFrom(_, _, _, _)
BDivSmallFrom(a, k, i, rem) ==
  IF i = 0 THEN <<>>
  ELSE LET cur == rem * LimbBase + a[i]
       IN  BDivSmallFrom(a, k, i - 1, cur % k) \o <<cur \div k>>

BDivSmall(a, k) == BNorm(BDivSmallFrom(a, k, Len(a), 0))

Zeros(n) == [i \in 1..n |-> 0]

\* a * 2^n
BShl(a, n) ==
  IF a = <<>> THEN a
  ELSE Zeros(n \div LimbBits) \o BMulSmall(a, 2^(n % LimbBits))

\* floor(a / 2^n)
BShr(a, n) ==
  IF n \div LimbBits >= Len(a) THEN <<>>
  ELSE BDivSmall(SubSeq(a, (n \div LimbBits) + 1, Len(a)), 2^(n % LimbBits))

RECURSIVE NatBitLen(_)
NatBitLen(n) == IF n = 0 THEN 0 ELSE 1 + NatBitLen(n \div 2)

BBitLen(a) ==
  IF a = <<>> THEN 0 ELSE LimbBits * (Len(a) - 1) + NatBitLen(a[Len(a)])

BIsOdd(a) == a # <<>> /\ a[1] % 2 = 1

RECURSIVE BMulFrom(_, _, _)
BMulFrom(a, b, i) ==
  IF i > Len(b) THEN <<>>
  ELSE BAdd(Zeros(i - 1) \o BMulSmall(a, b[i]), BMulFrom(a, b, i + 1))

BMul(a, b) == IF a = <<>> \/ b = <<>> THEN <<>> ELSE BNorm(BMulFrom(a, b, 1))

----------------------------------------------------------------------------
(* Python floats (IEEE 754 binary64): sign * m * 2^e with m a natural of   *)
(* exactly MantBits bits, or m = 0 for zero (the sign of zero is not       *)
(* observable in the code and is not kept).  Every operation computes the  *)
(* exact result and rounds it to nearest, ties to even.  sign = 0 marks    *)
(* a raised ZeroDivisionError, which every later operation propagates.     *)
(* Intermediate values are passed as operator parameters.                  *)

MantBits == 53

FZero == [sign |-> 1, m |-> <<>>, e |-> 0]
FRaised == [sign |-> 0, m |-> <<>>, e |-> 0]

Raised(x) == x.sign = 0
FIsZero(x) == x.sign # 0 /\ x.m = <<>>

\* sign * q * 2^E for q of MantBits or MantBits + 1 bits (a carry out of
\* the rounding)
FPack(sign, q, E) ==
  IF BBitLen(q) > MantBits
    THEN [sign |-> sign, m |-> BShr(q, 1), e |-> E + 1]
    ELSE [sign |-> sign, m |-> q, e |-> E]

\* q rounded up or not, c comparing the dropped bits with half a unit
FRoundTie(sign, q, E, c) ==
  FPack(sign, IF c = 1 \/ (c = 0 /\ BIsOdd(q)) THEN BAdd(q, <<1>>) ELSE q, E)

\* M of more than MantBits bits: q = floor(M / 2^k) keeps the top MantBits
FRoundDrop(sign, M, E, k, q) ==
  FRoundTie(sign, q, E + k, BCmp(BSub(M, BShl(q, k)), BShl(<<1>>, k - 1)))

\* M of L bits
FRoundLen(sign, M, E, L) ==
  IF L = 0 THEN FZero
  ELSE IF L <= MantBits
    THEN [sign |-> sign, m |-> BShl(M, MantBits - L), e |-> E - (MantBits - L)]
    ELSE FRoundDrop(sign, M, E, L - MantBits, BShr(M, L - MantBits))

\* the float nearest to sign * M * 2^E
FRound(sign, M, E) == FRoundLen(sign, M, E, BBitLen(M))

\* float(n) for an int n
FFromInt(n) == FRound(IF n < 0 THEN -1 ELSE 1, BFromNat(IF n < 0 THEN -n ELSE n), 0)

FNeg(x) == [x EXCEPT !.sign = -x.sign]

\* abs(x)
FAbs(x) == IF Raised(x) THEN x ELSE [x EXCEPT !.sign = 1]

\* sx * Mx * 2^e + sy * My * 2^e, c comparing Mx with My
FAddSigned(sx, Mx, sy, My, e, c) ==
  FRound(IF sx = sy \/ c = 1 THEN sx ELSE sy,
         IF sx = sy THEN BAdd(Mx, My)
         ELSE IF c = 1 THEN BSub(Mx, My)
         ELSE IF c = 0 THEN <<>>
         ELSE BSub(My, Mx),
         e)

FAddAligned(sx, Mx, sy, My, e) == FAddSigned(sx, Mx, sy, My, e, BCmp(Mx, My))

\* x + y
FAdd(x, y) ==
  IF Raised(x) \/ Raised(y) THEN FRaised
  ELSE IF FIsZero(x) THEN y
  ELSE IF FIsZero(y) THEN x
  ELSE FAddAligned(x.sign, BShl(x.m, x.e - Min(x.e, y.e)),
                   y.sign, BShl(y.m, y.e - Min(x.e, y.e)), Min(x.e, y.e))

\* x - y
FSub(x, y) == FAdd(x, FNeg(y))

\* x * y
FMul(x, y) ==
  IF Raised(x) \/ Raised(y) THEN FRaised
  ELSE FRound(x.sign * y.sign, BMul(x.m, y.m), x.e + y.e)

\* Long division by limbs.  One quotient limb of r / d for r < d * LimbBase:
\* the largest digit with digit * d <= r, as <<digit, r - digit * d>>.
\* est is the estimate from the leading limbs, never below the digit, and
\* within 2 of it when the top limb of d is at least LimbBase / 2;
\* t = est * d.
RECURSIVE QuotFix(_, _, _, _)
QuotFix(r, d, est, t) ==
  IF BCmp(t, r) = 1 THEN QuotFix(r, d, est - 1, BSub(t, d))
  ELSE <<est, BSub(r, t)>>

QuotEst(r, d) ==
  Min(LimbBase - 1,
      (BLimb(r, Len(d) + 1) * LimbBase + BLimb(r, Len(d))) \div d[Len(d)])

QuotFrom(r, d, est) == QuotFix(r, d, est, BMulSmall(d, est))

QuotDigit(r, d) == QuotFrom(r, d, QuotEst(r, d))

\* r * LimbBase
BShlLimb(r) == IF r = <<>> THEN r ELSE <<0>> \o r

\* k quotient limbs of r / d for r < d * LimbBase:
\* <<floor(r * LimbBase^(k-1) / d), rest>>, rest = 0 exactly when the
\* quotient is exact
RECURSIVE QuotLimbs(_, _, _)
QuotLimbPut(hi, lo) == <<lo[1] \o <<hi>>, lo[2]>>

QuotLimbStep(d, k, hi) ==
  QuotLimbPut(hi[1], QuotLimbs(BShlLimb(hi[2]), d, k - 1))

QuotLimbs(r, d, k) ==
  IF k = 0 \/ r = <<>> THEN <<Zeros(k), r>>
  ELSE QuotLimbStep(d, k, QuotDigit(r, d))

\* limbs of a significand, and the shift that fills its top limb
MantLimbs == (MantBits + LimbBits - 1) \div LimbBits
NormShift == MantLimbs * LimbBits - MantBits

\* limbs of quotient computed before rounding: one for the integer part and
\* MantLimbs for the significand, a guard bit and more; the sticky bit is
\* appended below them
QuotientLimbs == MantLimbs + 1

\* the quotient qr = <<q, rest>> rounded, a nonzero rest as a sticky bit
FDivRound(sign, qr, E) ==
  FRound(sign,
         BAdd(BShl(BNorm(qr[1]), 1), IF qr[2] = <<>> THEN <<>> ELSE <<1>>), E)

\* x / y; a zero divisor raises ZeroDivisionError
FDiv(x, y) ==
  IF Raised(x) \/ Raised(y) THEN FRaised
  ELSE IF FIsZero(y) THEN FRaised
  ELSE IF FIsZero(x) THEN FZero
  ELSE FDivRound(x.sign * y.sign,
                 QuotLimbs(BShl(x.m, NormShift), BShl(y.m, NormShift),
                           QuotientLimbs),
                 x.e - y.e - (QuotientLimbs - 1) * LimbBits - 1)

FSgn(x) == IF x.m = <<>> THEN 0 ELSE x.sign

\* -1, 0, 1 as x < y, x == y, x > y
FCmp(x, y) ==
  IF FSgn(x) # FSgn(y) THEN (IF FSgn(x) < FSgn(y) THEN -1 ELSE 1)
  ELSE IF FSgn(x) = 0 THEN 0
  ELSE IF x.e # y.e THEN (IF x.e < y.e THEN -FSgn(x) ELSE FSgn(x))
  ELSE FSgn(x) * BCmp(x.m, y.m)

\* max(x, y): the first maximal argument
FMax2(x, y) ==
  IF Raised(x) \/ Raised(y) THEN FRaised
  ELSE IF FCmp(y, x) = 1 THEN y ELSE x

\* max(x, y, z)
FMax3(x, y, z) == FMax2(FMax2(x, y), z)

----------------------------------------------------------------------------
(* class FaultType: each member is modelled by its value string.           *)

SHORT_CIRCUIT == "Short Circuit"
OPEN_CIRCUIT == "Open Circuit"
GROUND_FAULT == "Ground Fault"
PHASE_IMBALANCE == "Phase Imbalance"
OVERVOLTAGE == "Overvoltage"
UNDERVOLTAGE == "Undervoltage"
OVERCURRENT == "Overcurrent"
HARMONIC_DISTORTION == "Harmonic Distortion"
POWER_FACTOR_LOW == "Low Power Factor"
NONE == "No Fault"

FaultType ==
  { SHORT_CIRCUIT, OPEN_CIRCUIT, GROUND_FAULT, PHASE_IMBALANCE, OVERVOLTAGE,
    UNDERVOLTAGE, OVERCURRENT, HARMONIC_DISTORTION, POWER_FACTOR_LOW, NONE }

\* Python's None, and the marker of a call that raised instead of returning
PyNone == "<None>"
ZeroDivisionError == "<ZeroDivisionError>"

(* class FaultDiagnosis: threshold values.  POWER_FACTOR_MIN is in         *)
(* hundredths, as every power factor of the model.                         *)
VOLTAGE_MIN == 200
VOLTAGE_MAX == 250
CURRENT_MAX == 30
FREQUENCY_MIN == 48
FREQUENCY_MAX == 52
POWER_FACTOR_MIN == 85
PHASE_IMBALANCE_MAX == 5
TEMPERATURE_MAX == 80

\* FaultDiagnosis.__init__
NewFaultDiagnosis == [fault_history |-> <<>>, threshold_violations |-> <<>>]

_check_voltage(voltage) ==
  IF voltage > VOLTAGE_MAX THEN OVERVOLTAGE
  ELSE IF voltage < VOLTAGE_MIN THEN UNDERVOLTAGE
  ELSE PyNone

\* variant: a current above 1.5 times the limit is a short circuit
_check_current_short(current) ==
  IF current * 2 > CURRENT_MAX * 3 THEN SHORT_CIRCUIT
  ELSE IF current > CURRENT_MAX THEN OVERCURRENT
  ELSE PyNone

_check_current(current) ==
  IF current > CURRENT_MAX THEN OVERCURRENT ELSE PyNone

_check_frequency(frequency) ==
  IF frequency < FREQUENCY_MIN \/ frequency > FREQUENCY_MAX
    THEN HARMONIC_DISTORTION
    ELSE PyNone

_check_power_factor(power_factor) ==
  IF power_factor < POWER_FACTOR_MIN THEN POWER_FACTOR_LOW ELSE PyNone

\* abs((v - avg_voltage) / avg_voltage) * 100
imbalance_of(v, avg_voltage) ==
  FMul(FAbs(FDiv(FSub(v, avg_voltage), avg_voltage)), FFromInt(100))

\* the comparison with PHASE_IMBALANCE_MAX, or the propagated exception
imbalance_verdict(max_imbalance) ==
  IF Raised(max_imbalance) THEN ZeroDivisionError
  ELSE IF FCmp(max_imbalance, FFromInt(PHASE_IMBALANCE_MAX)) = 1
    THEN PHASE_IMBALANCE
    ELSE PyNone

\* variant: no test of avg_voltage == 0 before the divisions
imbalance_unguarded(va, vb, vc, avg_voltage) ==
  imbalance_verdict(FMax3(imbalance_of(va, avg_voltage),
                          imbalance_of(vb, avg_voltage),
                          imbalance_of(vc, avg_voltage)))

\* the check from its second statement on
imbalance_from_avg(va, vb, vc, avg_voltage) ==
  IF FIsZero(avg_voltage) THEN PyNone
  ELSE imbalance_verdict(FMax3(imbalance_of(va, avg_voltage),
                               imbalance_of(vb, avg_voltage),
                               imbalance_of(vc, avg_voltage)))

\* the three-phase check on floats va, vb, vc
_check_phase_imbalance(va, vb, vc) ==
  imbalance_from_avg(va, vb, vc, FDiv(FAdd(FAdd(va, vb), vc), FFromInt(3)))

\* variant: triggers at the limit itself
_check_temperature_at_limit(temperature) ==
  IF temperature >= TEMPERATURE_MAX THEN OVERCURRENT ELSE PyNone

_check_temperature(temperature) ==
  IF temperature > TEMPERATURE_MAX THEN OVERCURRENT ELSE PyNone

severity_map ==
  [f \in { SHORT_CIRCUIT, GROUND_FAULT, OVERCURRENT, OVERVOLTAGE,
           PHASE_IMBALANCE, POWER_FACTOR_LOW } |->
     CASE f = SHORT_CIRCUIT -> "Critical"
       [] f = GROUND_FAULT -> "Critical"
       [] f = OVERCURRENT -> "High"
       [] f = OVERVOLTAGE -> "High"
       [] f = PHASE_IMBALANCE -> "Medium"
       [] f = POWER_FACTOR_LOW -> "Low"]

\* variant: counts the distinct classifications instead of the entries
_calculate_severity_distinct(reading, faults) ==
  IF faults = <<>> \/ NONE \in Range(faults) THEN "None"
  ELSE IF Cardinality(Range(faults)) >= 3 THEN "Critical"
  ELSE LET found == SelectSeq(faults, LAMBDA fault : fault \in DOMAIN severity_map)
       IN  IF found # <<>> THEN severity_map[found[1]] ELSE "Medium"

\* variant: looks up the first fault only instead of scanning the list
_calculate_severity_first(reading, faults) ==
  IF faults = <<>> \/ NONE \in Range(faults) THEN "None"
  ELSE IF Len(faults) >= 3 THEN "Critical"
  ELSE IF faults[1] \in DOMAIN severity_map THEN severity_map[faults[1]]
  ELSE "Medium"

_calculate_severity(reading, faults) ==
  IF faults = <<>> \/ NONE \in Range(faults) THEN "None"
  ELSE IF Len(faults) >= 3 THEN "Critical"
  ELSE LET found == SelectSeq(faults, LAMBDA fault : fault \in DOMAIN severity_map)
       IN  IF found # <<>> THEN severity_map[found[1]] ELSE "Medium"

\* variant: deducts for every current above CURRENT_MAX
_calculate_confidence_max(reading) ==
  LET c0 == 100
      c1 == IF \/ reading.voltage * 2 > VOLTAGE_MAX * 3
               \/ reading.voltage * 2 < VOLTAGE_MIN
              THEN c0 - 10 ELSE c0
      c2 == IF reading.current > CURRENT_MAX THEN c1 - 10 ELSE c1
      c3 == IF reading.power_factor < 70 THEN c2 - 15 ELSE c2
  IN  Max(0, Min(100, c3))

\* VOLTAGE_MAX * 1.5, VOLTAGE_MIN * 0.5 and CURRENT_MAX * 1.5 are exact
\* floats; each comparison is doubled to stay in the integers, and 0.7 is 70
\* hundredths.
_calculate_confidence(reading) ==
  LET c0 == 100
      c1 == IF \/ reading.voltage * 2 > VOLTAGE_MAX * 3
               \/ reading.voltage * 2 < VOLTAGE_MIN
              THEN c0 - 10 ELSE c0
      c2 == IF reading.current * 2 > CURRENT_MAX * 3 THEN c1 - 10 ELSE c1
      c3 == IF reading.power_factor < 70 THEN c2 - 15 ELSE c2
  IN  Max(0, Min(100, c3))

actions ==
  [f \in FaultType |->
     CASE f = SHORT_CIRCUIT -> "IMMEDIATE ACTION: Isolate circuit and check for damaged wiring or components."
       [] f = OPEN_CIRCUIT -> "Check continuity and repair broken connections."
       [] f = GROUND_FAULT -> "Isolate system and test insulation resistance. Repair grounding issues."
       [] f = PHASE_IMBALANCE -> "Check load distribution across phases and rebalance if necessary."
       [] f = OVERVOLTAGE -> "Check voltage regulator and power supply settings."
       [] f = UNDERVOLTAGE -> "Verify power supply and transformer settings."
       [] f = OVERCURRENT -> "Reduce load or check for short circuits. Verify circuit breaker rating."
       [] f = HARMONIC_DISTORTION -> "Install harmonic filters or upgrade power quality equipment."
       [] f = POWER_FACTOR_LOW -> "Install power factor correction capacitors."
       [] f = NONE -> "System operating normally."]

\* variant: an unknown fault gets the action of "No Fault"
_recommend_action_normal(fault) ==
  IF fault \in DOMAIN actions THEN actions[fault] ELSE actions[NONE]

_recommend_action(fault) ==
  IF fault \in DOMAIN actions THEN actions[fault]
  ELSE "Perform maintenance inspection."

\* variant: the last fault of the list instead of the first
primary_fault_last(faults) == IF faults # <<>> THEN faults[Len(faults)] ELSE NONE

\* faults[0] if faults else FaultType.NONE
primary_fault_of(faults) == IF faults # <<>> THEN faults[1] ELSE NONE

\* one "<check>_fault = ...; if <check>_fault: faults.append(...);
\* details.append(...)" of diagnose; lists holds the two lists so far, and
\* the exception once a check has raised (the rest of the body is then not
\* run).  A detail string is kept as its template's label with the values
\* formatted into it.
append_if(lists, fault, detail) ==
  IF lists.raised # PyNone THEN lists
  ELSE IF fault = ZeroDivisionError THEN [lists EXCEPT !.raised = fault]
  ELSE IF fault # PyNone
    THEN [lists EXCEPT !.faults = Append(@, fault),
                       !.details = Append(@, detail)]
    ELSE lists

\* the six checks of diagnose, in their order
diagnose_checks(self, reading) ==
  append_if(
    append_if(
      append_if(
        append_if(
          append_if(
            append_if([faults |-> <<>>, details |-> <<>>, raised |-> PyNone],
              _check_voltage(reading.voltage),
              <<"Voltage", reading.voltage, VOLTAGE_MIN, VOLTAGE_MAX>>),
            _check_current(reading.current),
            <<"Current", reading.current, CURRENT_MAX>>),
          _check_frequency(reading.frequency),
          <<"Frequency", reading.frequency, FREQUENCY_MIN, FREQUENCY_MAX>>),
        _check_power_factor(reading.power_factor),
        <<"Power Factor", reading.power_factor, POWER_FACTOR_MIN>>),
      _check_phase_imbalance(FFromInt(reading.phase_a),
                             FFromInt(reading.phase_b),
                             FFromInt(reading.phase_c)),
      <<"Phase Imbalance detected", reading.phase_a, reading.phase_b,
        reading.phase_c>>),
    _check_temperature(reading.temperature),
    <<"Temperature", reading.temperature, TEMPERATURE_MAX>>)

\* the dictionary diagnose returns
diagnose_return(self, reading, faults, details) ==
  [outcome |-> "return", exception |-> PyNone,
   primary_fault |-> primary_fault_of(faults),
   all_faults |-> faults,
   severity |-> _calculate_severity(reading, faults),
   confidence |-> _calculate_confidence(reading),
   details |-> details,
   action |-> _recommend_action(primary_fault_of(faults))]

diagnose_end(self, reading, lists) ==
  IF lists.raised # PyNone
    THEN [outcome |-> "raise", exception |-> lists.raised,
          primary_fault |-> PyNone, all_faults |-> <<>>,
          severity |-> PyNone, confidence |-> 0, details |-> <<>>,
          action |-> PyNone]
    ELSE diagnose_return(self, reading, lists.faults, lists.details)

\* what diagnose(reading) returns, or that it raised
diagnose_outcome(self, reading) ==
  diagnose_end(self, reading, diagnose_checks(self, reading))

\* variant: records the primary fault of every call in fault_history
diagnose_recording(self, reading) ==
  [ret |-> diagnose_outcome(self, reading),
   self |-> [self EXCEPT !.fault_history =
                           Append(@, diagnose_outcome(self, reading).primary_fault)],
   reading |-> reading]

\* diagnose: the outcome, and the instance and the reading after the call
\* (the body assigns to no attribute of either)
diagnose(self, reading) ==
  [ret |-> diagnose_outcome(self, reading), self |-> self,
   reading |-> reading]

----------------------------------------------------------------------------
(* The power utilities.  A power factor is in hundredths, so 1 - pf ** 2   *)
(* is in ten-thousandths; calculate_power and calculate_reactive_power     *)
(* return hundredths of a unit, calculate_apparent_power whole units.      *)

ValueError == "<ValueError>"

\* the outcome of a call that can raise: the value returned, or the
\* exception
Returns(x) == [exception |-> PyNone, value |-> x]
Raises(e) == [exception |-> e, value |-> 0]

\* math.sqrt of x ten-thousandths, in hundredths, for the x whose root is a
\* whole number of hundredths; math.sqrt raises ValueError below zero
math_sqrt(x) ==
  IF x < 0 THEN Raises(ValueError)
  ELSE Returns(CHOOSE r \in 0..x : r * r = x)

calculate_power(self, voltage, current, power_factor) ==
  voltage * current * power_factor

calculate_apparent_power(self, voltage, current) == voltage * current

\* variant: sin_phi without the square root
calculate_reactive_power_squared(self, voltage, current, power_factor) ==
  Returns(voltage * current
            * ((100 * 100 - power_factor * power_factor) \div 100))

calculate_reactive_power(self, voltage, current, power_factor) ==
  LET sin_phi == math_sqrt(100 * 100 - power_factor * power_factor)
  IN  IF sin_phi.exception # PyNone THEN sin_phi
      ELSE Returns(voltage * current * sin_phi.value)

----------------------------------------------------------------------------
(* src/app.py: the persisted model.  A file is "absent", "valid" (a blob   *)
(* joblib.load reads back), "corrupt" (joblib.load raises) or "partial"    *)
(* (opened for writing by joblib.dump and not yet complete).               *)

MODEL_PATH == "fault_model.pkl"
SCALER_PATH == "scaler.pkl"
Paths == {MODEL_PATH, SCALER_PATH}

os_path_exists(fs, path) == fs[path] # "absent"

\* joblib.load(path): the object, or that it raised
joblib_load(fs, path) == IF fs[path] = "valid" THEN "loaded" ELSE "raise"

\* where init_model goes after os.path.exists(MODEL_PATH); "and" does not
\* evaluate its second operand when the first is false
after_model_exists(exists) == IF exists THEN "exists_scaler" ELSE "train"

\* variant: trains whatever os.path.exists(SCALER_PATH) says
after_scaler_exists_retrain(exists) == "train"

\* where init_model goes after os.path.exists(SCALER_PATH)
after_scaler_exists(exists) == IF exists THEN "load_model" ELSE "train"

\* a process that has not run init_model
NewProcess(fs) ==
  [model |-> "none", scaler |-> "none",
   saw_model |-> "unchecked", saw_scaler |-> "unchecked",
   trained |-> 0, wrote |-> {}, at_start |-> fs]

----------------------------------------------------------------------------
(* src/app.py: POST /api/diagnose.  A sensor value is a float kept in      *)
(* tenths, or NaN; the request's literals carry at most one decimal.  A    *)
(* probability and a confidence are kept in units of 0.00001, so 0.87656   *)
(* is 87656 and the percentage 87.66 is 8766000.                           *)

TypeError == "<TypeError>"
KeyError == "<KeyError>"

Float(tenths) == [nan |-> FALSE, tenths |-> tenths]
NaN == [nan |-> TRUE, tenths |-> 0]

\* the values a JSON body can hold for a key
Number(tenths) == [type |-> "number", float |-> Float(tenths), chars |-> <<>>]
String(chars) == [type |-> "string", float |-> Float(0), chars |-> chars]
Null == [type |-> "null", float |-> Float(0), chars |-> <<>>]

Digits == <<"0", "1", "2", "3", "4", "5", "6", "7", "8", "9">>
IsDigit(c) == \E d \in 1..10 : Digits[d] = c
DigitValue(c) == (CHOOSE d \in 1..10 : Digits[d] = c) - 1

\* the natural written by a sequence of digits
RECURSIVE digits_value(_, _)
digits_value(chars, acc) ==
  IF chars = <<>> THEN acc
  ELSE digits_value(Tail(chars), acc * 10 + DigitValue(Head(chars)))

AllDigits(chars) == \A k \in 1..Len(chars) : IsDigit(chars[k])

PointAt(chars) ==
  IF \E k \in 1..Len(chars) : chars[k] = "."
    THEN CHOOSE k \in 1..Len(chars) : chars[k] = "."
    ELSE Len(chars) + 1

\* float(str) on an unsigned decimal literal with at most one decimal
parse_unsigned(chars) ==
  LET k == PointAt(chars)
      whole == SubSeq(chars, 1, k - 1)
      frac == SubSeq(chars, k + 1, Len(chars))
  IN  IF /\ AllDigits(whole) /\ AllDigits(frac)
         /\ Len(whole) + Len(frac) > 0
         /\ Len(frac) <= 1
        THEN [exception |-> PyNone,
              value |-> Float(digits_value(whole, 0) * 10 + digits_value(frac, 0))]
        ELSE [exception |-> ValueError, value |-> Float(0)]

\* float(str)
float_of_str(chars) ==
  IF chars = <<"n", "a", "n">> THEN [exception |-> PyNone, value |-> NaN]
  ELSE IF chars # <<>> /\ Head(chars) = "-"
    THEN LET r == parse_unsigned(Tail(chars))
         IN  [exception |-> r.exception, value |-> Float(0 - r.value.tenths)]
    ELSE parse_unsigned(chars)

\* float(x) for what data.get returns
py_float(x) ==
  CASE x.type = "number" -> [exception |-> PyNone, value |-> x.float]
    [] x.type = "string" -> float_of_str(x.chars)
    [] OTHER -> [exception |-> TypeError, value |-> Float(0)]

\* data.get(key, default)
dict_get(data, key, default) == IF key \in DOMAIN data THEN data[key] ELSE default

Fields == <<"voltage", "current", "temperature", "vibration", "power_factor">>

\* the second arguments of data.get: 230, 50, 60, 5, 0.9
FieldDefaults == <<Number(2300), Number(500), Number(600), Number(50), Number(9)>>

\* float(data.get(...)) for the five fields, in the order of the code
extract_readings(data) ==
  [k \in 1..5 |-> py_float(dict_get(data, Fields[k], FieldDefaults[k]))]

FAULT_TYPES ==
  [c \in 0..3 |-> CASE c = 0 -> "Normal Operation"
                    [] c = 1 -> "Overheat"
                    [] c = 2 -> "Overload"
                    [] c = 3 -> "Short Circuit"]

RECOMMENDATIONS ==
  [c \in 0..3 |-> CASE c = 0 -> "System operating normally. Continue monitoring."
                    [] c = 1 -> "Reduce load or improve cooling. Check ventilation."
                    [] c = 2 -> "Reduce load immediately. Inspect circuit breaker."
                    [] c = 3 -> "EMERGENCY: Shut down immediately. Check for faults."]

\* round(x, 2) for x in units of 0.00001: to the nearest multiple of 1000,
\* ties to the even one
round_2(x) ==
  LET q == x \div 1000
      r == x % 1000
  IN  IF r > 500 \/ (r = 500 /\ q % 2 = 1) THEN (q + 1) * 1000 ELSE q * 1000

\* variant: rounds the probability without scaling it
confidence_percent_unscaled(confidence) == round_2(confidence)

\* round(confidence * 100, 2)
confidence_percent(confidence) == round_2(confidence * 100)

NoBody == [status |-> "none", fault_type |-> "", confidence |-> 0,
           recommendation |-> "", message |-> ""]

error_response(e) ==
  [code |-> 400,
   body |-> [NoBody EXCEPT !.status = "error", !.message = e],
   rows |-> <<>>, mails |-> <<>>, transformed |-> FALSE, predicted |-> FALSE,
   prediction |-> -1, probability |-> 0]

\* the handler from the prediction on; library is what the classifier
\* answers: the class, its probability, and whether predict raises on NaN
diagnose_predicted(readings, library) ==
  LET prediction == library.prediction
      confidence == library.probability
  IN  IF \E k \in 1..5 : readings[k].nan /\ library.nan_raises
        THEN [error_response(ValueError) EXCEPT !.transformed = TRUE, !.predicted = TRUE]
      ELSE IF prediction \notin DOMAIN FAULT_TYPES
        THEN [error_response(KeyError) EXCEPT !.transformed = TRUE, !.predicted = TRUE,
                                              !.prediction = prediction,
                                              !.probability = confidence]
      ELSE
        [code |-> 200,
         body |-> [status |-> "success",
                   fault_type |-> FAULT_TYPES[prediction],
                   confidence |-> confidence_percent(confidence),
                   recommendation |-> RECOMMENDATIONS[prediction],
                   message |-> ""],
         rows |-> << [fault_type |-> FAULT_TYPES[prediction],
                      confidence |-> confidence,
                      sensor_readings |-> readings,
                      recommendation |-> RECOMMENDATIONS[prediction]] >>,
         mails |-> << [fault_type |-> FAULT_TYPES[prediction],
                       confidence |-> confidence_percent(confidence),
                       recommendation |-> RECOMMENDATIONS[prediction]] >>,
         transformed |-> TRUE, predicted |-> TRUE,
         prediction |-> prediction, probability |-> confidence]

\* the handler of POST /api/diagnose for a logged-in user
api_diagnose(data, library) ==
  LET floats == extract_readings(data)
  IN  IF \E k \in 1..5 : floats[k].exception # PyNone
        THEN error_response(floats[CHOOSE k \in 1..5 :
                                     /\ floats[k].exception # PyNone
                                     /\ \A j \in 1..(k - 1) : floats[j].exception = PyNone].exception)
        ELSE diagnose_predicted([k \in 1..5 |-> floats[k].value], library)

----------------------------------------------------------------------------
(* src/app.py: accounts.  Table users is a sequence of rows, the id of a   *)
(* row being its index.  A password is a sequence of characters.  Time is  *)
(* in hours.                                                               *)

ACTIVATION_SALT == "email-confirm-salt"
RESET_SALT == "password-reset-salt"

\* max_age=3600*24 seconds
MAX_AGE == 24

BadSignature == "<BadSignature>"
SignatureExpired == "<SignatureExpired>"

\* serializer.dumps(user_id, salt=salt) at time now
serializer_dumps(user_id, salt, now) ==
  [salt |-> salt, user_id |-> user_id, issued |-> now, signed |-> TRUE]

\* serializer.loads(token, salt=salt, max_age=max_age) at time now
serializer_loads(token, salt, max_age, now) ==
  IF ~token.signed \/ token.salt # salt
    THEN [exception |-> BadSignature, value |-> 0]
  ELSE IF now - token.issued > max_age
    THEN [exception |-> SignatureExpired, value |-> 0]
  ELSE [exception |-> PyNone, value |-> token.user_id]

NoToken == [salt |-> "", user_id |-> 0, issued |-> 0, signed |-> FALSE]

\* str.strip() on the texts the requests carry
strip(text) ==
  CASE text = " ann@example.com " -> "ann@example.com"
    [] text = "   " -> ""
    [] OTHER -> text

generate_password_hash(password) == <<"hash">> \o password
check_password_hash(password_hash, password) == password_hash = <<"hash">> \o password

\* SELECT ... FROM users WHERE email = ?: the id of the row, 0 for none
select_by_email(users, email) ==
  IF \E id \in 1..Len(users) : users[id].email = email
    THEN CHOOSE id \in 1..Len(users) : users[id].email = email
    ELSE 0

Response(code, status, message) ==
  [code |-> code, status |-> status, message |-> message, activation_url |-> NoToken]

\* what a handler leaves: the response, the table, the session, the tokens
\* it handed out (in the response or in an email that was sent)
Handled(response, users, session, issued) ==
  [response |-> response, users |-> users, session |-> session, issued |-> issued]

\* POST /register
register(users, session, data, now) ==
  LET email == strip(data.email)
      username == strip(data.username)
      password == data.password
      user_id == Len(users) + 1
      activation_token == serializer_dumps(user_id, ACTIVATION_SALT, now)
  IN  IF email = "" \/ username = "" \/ password = <<>>
        THEN Handled(Response(400, "error", "All fields required"), users, session, {})
      ELSE IF password # data.password_confirm
        THEN Handled(Response(400, "error", "Passwords do not match"), users, session, {})
      ELSE IF Len(password) < 6
        THEN Handled(Response(400, "error", "Password must be at least 6 characters"),
                     users, session, {})
      ELSE IF select_by_email(users, email) # 0
        THEN Handled(Response(400, "error", "Email already registered"), users, session, {})
      ELSE Handled([Response(201, "success",
                             IF data.mail_ok
                               THEN "Account created! Please check your email to activate your account."
                               ELSE "Account created! Click the link below to activate your account.")
                      EXCEPT !.activation_url = activation_token],
                   Append(users, [email |-> email, username |-> username,
                                  password_hash |-> generate_password_hash(password),
                                  is_activated |-> 0]),
                   session, {activation_token})

\* variant: the activation flag is not looked at
not_activated_ignored(user_row) == FALSE

\* not user_row['is_activated']
not_activated(user_row) == user_row.is_activated = 0

\* POST /login
login(users, session, data, now) ==
  LET email == strip(data.email)
      password == data.password
      id == select_by_email(users, email)
  IN  IF session # 0
        THEN Handled(Response(302, "redirect", "index"), users, session, {})
      ELSE IF email = "" \/ password = <<>>
        THEN Handled(Response(400, "error", "Email and password required"), users, session, {})
      ELSE IF id = 0
        THEN Handled(Response(401, "error", "Invalid email or password"), users, session, {})
      ELSE IF ~check_password_hash(users[id].password_hash, password)
        THEN Handled(Response(401, "error", "Invalid email or password"), users, session, {})
      ELSE IF not_activated(users[id])
        THEN Handled(Response(403, "error",
                              "Please activate your account using the link sent to your email"),
                     users, session, {})
      ELSE Handled(Response(200, "success", "Login successful"), users, id, {})

\* UPDATE users SET column = value WHERE id = user_id
update_user(users, user_id, column, value) ==
  [id \in 1..Len(users) |->
     IF id = user_id THEN [users[id] EXCEPT ![column] = value] ELSE users[id]]

\* GET /activate/<token>
activate_account(users, session, token, now) ==
  LET user_id == serializer_loads(token, ACTIVATION_SALT, MAX_AGE, now)
  IN  IF user_id.exception # PyNone
        THEN Handled(Response(200, "page", "activation_failed.html"), users, session, {})
        ELSE Handled(Response(200, "page", "activation_success.html"),
                     update_user(users, user_id.value, "is_activated", 1), session, {})

\* GET /logout
logout(users, session, now) ==
  IF session = 0
    THEN Handled(Response(302, "redirect", "login"), users, session, {})
    ELSE Handled(Response(302, "redirect", "login"), users, 0, {})

\* POST /forgot-password; mail_ok is whether mail.send succeeds
forgot_password(users, session, data, now) ==
  LET email == strip(data.email)
      id == select_by_email(users, email)
  IN  IF email = ""
        THEN Handled(Response(400, "error", "Email is required"), users, session, {})
      ELSE IF id = 0
        THEN Handled(Response(200, "success",
                              "If an account exists with this email, a reset link has been sent"),
                     users, session, {})
      ELSE Handled(Response(200, "success",
                            "If an account exists with this email, check your inbox for a password reset link."),
                   users, session,
                   IF data.mail_ok THEN {serializer_dumps(id, RESET_SALT, now)} ELSE {})

\* POST /reset-password/<token>
reset_password(users, session, token, data, now) ==
  LET user_id == serializer_loads(token, RESET_SALT, MAX_AGE, now)
      password == data.password
  IN  IF user_id.exception # PyNone
        THEN Handled(Response(200, "page", "activation_failed.html"), users, session, {})
      ELSE IF password = <<>>
        THEN Handled(Response(400, "error", "Password is required"), users, session, {})
      ELSE IF Len(password) < 6
        THEN Handled(Response(400, "error", "Password must be at least 6 characters"),
                     users, session, {})
      ELSE Handled(Response(200, "success", "Password reset successfully"),
                   update_user(users, user_id.value, "password_hash",
                               generate_password_hash(password)),
                   session, {})

----------------------------------------------------------------------------
(* The state: one FaultDiagnosis instance, the reading its caller holds,   *)
(* the outcome of the last diagnose call, and the calls made so far.       *)

VARIABLES
  fd,          \* the instance: fault_history, threshold_violations
  reading,     \* the ElectricalReading the caller passes to diagnose
  result,      \* the outcome of the last diagnose call
  history,     \* <<reading passed, outcome, reading after the call>> of
               \* every diagnose call, in order
  fault_arg,   \* the argument of the last _recommend_action call
  action_ret   \* what it returned

\* the state of the other parts of the program, which no call on the
\* FaultDiagnosis rules touches
VARIABLES
  power_call,  \* the last power utility call: <<name, arguments...>>
  power_ret    \* what it returned, or the exception it raised

\* the server processes importing src/app.py and the files they share
VARIABLES
  files,       \* the state of the file at each path
  writing,     \* the processes that have each path open for writing
  pc,          \* where each process is
  proc,        \* each process: its model and scaler objects, what its
               \* os.path.exists calls returned, the trainings it ran, the
               \* paths it dumped to, the files as they were when it started
  trainings,   \* the trainings run so far, by all processes
  writes,      \* the joblib.dump calls made so far on each path
  starts,      \* the process starts so far
  requests     \* the requests served so far

\* POST /api/diagnose: the last request and its response, the rows of table
\* diagnoses, the report emails handed to mail.send, and what the last
\* request reached (scaler.transform, model.predict and what it answered,
\* the INSERT, the email)
VARIABLES
  api_request, api_response, diagnoses, reports, api_reached, api_calls

\* accounts: table users, the tokens handed out, the user id of the one
\* client's session (0: not logged in), the time, the last request and its
\* response, the responses POST /forgot-password has given to a non-empty
\* email
VARIABLES
  users, tokens, session, now, auth_request, auth_response, forgot_responses,
  auth_calls

ruleVars == <<fd, reading, result, history, fault_arg, action_ret>>
powerVars == <<power_call, power_ret>>
bootVars == <<files, writing, pc, proc, trainings, writes, starts, requests>>

apiVars == <<api_request, api_response, diagnoses, reports, api_reached, api_calls>>

authVars == <<users, tokens, session, now, auth_request, auth_response,
              forgot_responses, auth_calls>>

vars == <<ruleVars, powerVars, bootVars, apiVars, authVars>>

exceptRules == <<powerVars, bootVars, apiVars, authVars>>
exceptPower == <<ruleVars, bootVars, apiVars, authVars>>
exceptBoot == <<ruleVars, powerVars, apiVars, authVars>>
exceptApi == <<ruleVars, powerVars, bootVars, authVars>>
exceptAuth == <<ruleVars, powerVars, bootVars, apiVars>>

\* Input values: each threshold, the values next to it, and the values next
\* to the confidence limits (100 V, 375 V, 45 A, 0.70).
Voltages == {99, 100, 200, 250, 251, 260, 376}
Currents == {30, 31, 35, 46}
Frequencies == {47, 48, 52, 53}
PowerFactors == {69, 70, 84, 85}
Temperatures == {80, 81}

\* <<phase_a, phase_b, phase_c>>: balanced; 13% off; average 0 (twice);
\* largest deviation exactly 5% of the average (twice); just above 5%.
PhaseTriples ==
  { <<230, 230, 230>>, <<200, 230, 260>>, <<0, 0, 0>>, <<100, -100, 0>>,
    <<238, 221, 221>>, <<231, 214, 215>>, <<232, 214, 214>> }

ElectricalReading(v, c, f, pf, ph, t) ==
  [voltage |-> v, current |-> c, frequency |-> f, power_factor |-> pf,
   phase_a |-> ph[1], phase_b |-> ph[2], phase_c |-> ph[3], temperature |-> t]

Readings ==
  { ElectricalReading(v, c, f, pf, ph, t) :
      v \in Voltages, c \in Currents, f \in Frequencies, pf \in PowerFactors,
      ph \in PhaseTriples, t \in Temperatures }

\* the readings of the multi-call specification
CallReadings ==
  { ElectricalReading(250, 30, 50, 85, <<230, 230, 230>>, 80),
    ElectricalReading(251, 30, 50, 84, <<200, 230, 260>>, 40),
    ElectricalReading(230, 31, 50, 95, <<0, 0, 0>>, 81),
    ElectricalReading(199, 15, 53, 95, <<231, 214, 215>>, 40) }

\* the arguments of _recommend_action: every FaultType member and a value
\* that is none of them
FaultArgs == FaultType \cup {"Overheat"}

\* diagnose calls per instance
MaxCalls == 3

NoResult ==
  [outcome |-> "none", exception |-> PyNone, primary_fault |-> PyNone,
   all_faults |-> <<>>, severity |-> PyNone, confidence |-> 0,
   details |-> <<>>, action |-> PyNone]

\* no power utility called yet
PowerIdle == power_call = <<>> /\ power_ret = [exception |-> PyNone, value |-> 0]

\* server processes
NumProcs == 2
Procs == 1..NumProcs

\* process starts, and requests served, in one behaviour
MaxStarts == 3
MaxRequests == 2

\* no process started; the two files in the given state
BootIdle(fs) ==
  /\ files = fs
  /\ writing = [path \in Paths |-> {}]
  /\ pc = [p \in Procs |-> "not_started"]
  /\ proc = [p \in Procs |-> NewProcess(fs)]
  /\ trainings = 0
  /\ writes = [path \in Paths |-> 0]
  /\ starts = 0
  /\ requests = 0

NoFiles == [path \in Paths |-> "absent"]

\* the parts outside the rules, before anything has run in them
MaxApiCalls == 2

NoResponse == [code |-> 0, body |-> NoBody]

ApiIdle ==
  /\ api_request = << >>
  /\ api_response = NoResponse
  /\ diagnoses = << >>
  /\ reports = << >>
  /\ api_reached = [transformed |-> FALSE, predicted |-> FALSE, stored |-> 0, mailed |-> 0,
                    prediction |-> -1, probability |-> 0]
  /\ api_calls = 0

MaxAuthCalls == 3
MaxClock == 25

NoRequest == [op |-> "none", data |-> << >>, token |-> NoToken]

AuthIdle(rows, held) ==
  /\ users = rows
  /\ tokens = held
  /\ session = 0
  /\ now = 0
  /\ auth_request = NoRequest
  /\ auth_response = Response(0, "none", "")
  /\ forgot_responses = {}
  /\ auth_calls = 0

OthersIdle == PowerIdle /\ BootIdle(NoFiles) /\ ApiIdle /\ AuthIdle(<< >>, {})

Init ==
  /\ fd = NewFaultDiagnosis
  /\ reading \in Readings
  /\ result = NoResult
  /\ history = <<>>
  /\ fault_arg = PyNone
  /\ action_ret = PyNone
  /\ OthersIdle

InitCalls ==
  /\ fd = NewFaultDiagnosis
  /\ reading \in CallReadings
  /\ result = NoResult
  /\ history = <<>>
  /\ fault_arg = PyNone
  /\ action_ret = PyNone
  /\ OthersIdle

\* fd.diagnose(reading)
Diagnose ==
  /\ Len(history) < MaxCalls
  /\ LET out == diagnose(fd, reading) IN
       /\ result' = out.ret
       /\ fd' = out.self
       /\ reading' = out.reading
       /\ history' = Append(history, <<reading, out.ret, out.reading>>)
  /\ UNCHANGED <<fault_arg, action_ret>>
  /\ UNCHANGED exceptRules

\* the first call on a new instance
FirstCall == history = <<>> /\ Diagnose

\* the caller builds another reading
NewReading ==
  /\ history # <<>>
  /\ reading' \in CallReadings \ {reading}
  /\ UNCHANGED <<fd, result, history, fault_arg, action_ret>>
  /\ UNCHANGED exceptRules

\* fd._recommend_action(fault)
Recommend(fault) ==
  /\ fault_arg' = fault
  /\ action_ret' = _recommend_action(fault)
  /\ UNCHANGED <<fd, reading, result, history>>
  /\ UNCHANGED exceptRules

Next == FirstCall

NextCalls ==
  \/ Diagnose
  \/ NewReading
  \/ \E fault \in FaultArgs : Recommend(fault)

\* one diagnose call on each reading of Readings
Spec == Init /\ [][Next]_vars

\* sequences of calls on one instance
SpecCalls == InitCalls /\ [][NextCalls]_vars

----------------------------------------------------------------------------
(* Calls of the power utilities on one instance.                           *)

\* the rules part at rest: a new instance and a nominal reading
RulesIdle ==
  /\ fd = NewFaultDiagnosis
  /\ reading = ElectricalReading(230, 15, 50, 92, <<230, 230, 230>>, 45)
  /\ result = NoResult
  /\ history = <<>>
  /\ fault_arg = PyNone
  /\ action_ret = PyNone

\* arguments: power factors (hundredths) whose sin_phi is a whole number of
\* hundredths, and some with pf ** 2 > 1
PowerVoltages == {0, 230, 240}
PowerCurrents == {0, 10, 15}
PowerFactorArgs == {-125, -100, 0, 28, 60, 80, 96, 100, 125}

InitPower ==
  RulesIdle /\ PowerIdle /\ BootIdle(NoFiles) /\ ApiIdle /\ AuthIdle(<< >>, {})

CalculatePower(v, i, pf) ==
  /\ power_call' = <<"calculate_power", v, i, pf>>
  /\ power_ret' = Returns(calculate_power(fd, v, i, pf))
  /\ UNCHANGED exceptPower

CalculateApparentPower(v, i) ==
  /\ power_call' = <<"calculate_apparent_power", v, i>>
  /\ power_ret' = Returns(calculate_apparent_power(fd, v, i))
  /\ UNCHANGED exceptPower

CalculateReactivePower(v, i, pf) ==
  /\ power_call' = <<"calculate_reactive_power", v, i, pf>>
  /\ power_ret' = calculate_reactive_power(fd, v, i, pf)
  /\ UNCHANGED exceptPower

NextPower ==
  \E v \in PowerVoltages, i \in PowerCurrents :
    \/ CalculateApparentPower(v, i)
    \/ \E pf \in PowerFactorArgs :
         CalculatePower(v, i, pf) \/ CalculateReactivePower(v, i, pf)

SpecPower == InitPower /\ [][NextPower]_vars

----------------------------------------------------------------------------
(* Server processes: each imports src/app.py, which runs init_model, then  *)
(* serves requests.  One action per statement of init_model that reads or  *)
(* writes a file.                                                          *)

Initializing(p) == pc[p] \notin {"not_started", "serving", "failed"}

\* the files a start can find
StartFiles == [Paths -> {"absent", "valid", "corrupt"}]

InitBoot ==
  /\ RulesIdle /\ PowerIdle /\ ApiIdle /\ AuthIdle(<< >>, {})
  /\ \E fs \in StartFiles : BootIdle(fs)

\* a process starts and imports app
Start(p) ==
  /\ pc[p] = "not_started"
  /\ starts < MaxStarts
  /\ starts' = starts + 1
  /\ pc' = [pc EXCEPT ![p] = "exists_model"]
  /\ proc' = [proc EXCEPT ![p] = NewProcess(files)]
  /\ UNCHANGED <<files, writing, trainings, writes, requests>>
  /\ UNCHANGED exceptBoot

\* a start while no other process is inside init_model
StartAlone(p) == (\A q \in Procs : ~Initializing(q)) /\ Start(p)

\* os.path.exists(MODEL_PATH)
ExistsModel(p) ==
  /\ pc[p] = "exists_model"
  /\ pc' = [pc EXCEPT ![p] = after_model_exists(os_path_exists(files, MODEL_PATH))]
  /\ proc' = [proc EXCEPT ![p].saw_model =
                IF os_path_exists(files, MODEL_PATH) THEN "yes" ELSE "no"]
  /\ UNCHANGED <<files, writing, trainings, writes, starts, requests>>
  /\ UNCHANGED exceptBoot

\* os.path.exists(SCALER_PATH)
ExistsScaler(p) ==
  /\ pc[p] = "exists_scaler"
  /\ pc' = [pc EXCEPT ![p] = after_scaler_exists(os_path_exists(files, SCALER_PATH))]
  /\ proc' = [proc EXCEPT ![p].saw_scaler =
                IF os_path_exists(files, SCALER_PATH) THEN "yes" ELSE "no"]
  /\ UNCHANGED <<files, writing, trainings, writes, starts, requests>>
  /\ UNCHANGED exceptBoot

\* model = joblib.load(MODEL_PATH); an exception ends the import
LoadModel(p) ==
  /\ pc[p] = "load_model"
  /\ IF joblib_load(files, MODEL_PATH) = "raise"
       THEN /\ pc' = [pc EXCEPT ![p] = "failed"]
            /\ UNCHANGED proc
       ELSE /\ pc' = [pc EXCEPT ![p] = "load_scaler"]
            /\ proc' = [proc EXCEPT ![p].model = joblib_load(files, MODEL_PATH)]
  /\ UNCHANGED <<files, writing, trainings, writes, starts, requests>>
  /\ UNCHANGED exceptBoot

\* scaler = joblib.load(SCALER_PATH); return model, scaler
LoadScaler(p) ==
  /\ pc[p] = "load_scaler"
  /\ IF joblib_load(files, SCALER_PATH) = "raise"
       THEN /\ pc' = [pc EXCEPT ![p] = "failed"]
            /\ UNCHANGED proc
       ELSE /\ pc' = [pc EXCEPT ![p] = "serving"]
            /\ proc' = [proc EXCEPT ![p].scaler = joblib_load(files, SCALER_PATH)]
  /\ UNCHANGED <<files, writing, trainings, writes, starts, requests>>
  /\ UNCHANGED exceptBoot

\* the else branch up to model.fit: seeded, so every training gives the
\* same model and scaler
Train(p) ==
  /\ pc[p] = "train"
  /\ pc' = [pc EXCEPT ![p] = "dump_model"]
  /\ proc' = [proc EXCEPT ![p].model = "trained", ![p].scaler = "trained",
                          ![p].trained = @ + 1]
  /\ trainings' = trainings + 1
  /\ UNCHANGED <<files, writing, writes, starts, requests>>
  /\ UNCHANGED exceptBoot

\* joblib.dump(obj, path) begins: the file is created or truncated
OpenDump(p, at, path, next) ==
  /\ pc[p] = at
  /\ pc' = [pc EXCEPT ![p] = next]
  /\ files' = [files EXCEPT ![path] = "partial"]
  /\ writing' = [writing EXCEPT ![path] = @ \cup {p}]
  /\ writes' = [writes EXCEPT ![path] = @ + 1]
  /\ proc' = [proc EXCEPT ![p].wrote = @ \cup {path}]
  /\ UNCHANGED <<trainings, starts, requests>>
  /\ UNCHANGED exceptBoot

\* joblib.dump(obj, path) ends: the file is complete once no writer is left
CloseDump(p, at, path, next) ==
  /\ pc[p] = at
  /\ pc' = [pc EXCEPT ![p] = next]
  /\ writing' = [writing EXCEPT ![path] = @ \ {p}]
  /\ files' = [files EXCEPT ![path] =
                 IF writing[path] \ {p} = {} THEN "valid" ELSE "partial"]
  /\ UNCHANGED <<proc, trainings, writes, starts, requests>>
  /\ UNCHANGED exceptBoot

DumpModel(p) ==
  \/ OpenDump(p, "dump_model", MODEL_PATH, "write_model")
  \/ CloseDump(p, "write_model", MODEL_PATH, "dump_scaler")

DumpScaler(p) ==
  \/ OpenDump(p, "dump_scaler", SCALER_PATH, "write_scaler")
  \/ CloseDump(p, "write_scaler", SCALER_PATH, "serving")

\* a request handled with the process's model and scaler
Serve(p) ==
  /\ pc[p] = "serving"
  /\ requests < MaxRequests
  /\ requests' = requests + 1
  /\ UNCHANGED <<files, writing, pc, proc, trainings, writes, starts>>
  /\ UNCHANGED exceptBoot

\* the process ends: its objects are gone, the files stay
Exit(p) ==
  /\ pc[p] \in {"serving", "failed"}
  /\ pc' = [pc EXCEPT ![p] = "not_started"]
  /\ UNCHANGED <<files, writing, proc, trainings, writes, starts, requests>>
  /\ UNCHANGED exceptBoot

InitModelStep(p) ==
  \/ ExistsModel(p)
  \/ ExistsScaler(p)
  \/ LoadModel(p)
  \/ LoadScaler(p)
  \/ Train(p)
  \/ DumpModel(p)
  \/ DumpScaler(p)

NextStartup ==
  \E p \in Procs : StartAlone(p) \/ InitModelStep(p) \/ Serve(p) \/ Exit(p)

NextWorkers ==
  \E p \in Procs : Start(p) \/ InitModelStep(p) \/ Serve(p) \/ Exit(p)

\* process starts one after another
SpecStartup == InitBoot /\ [][NextStartup]_vars

\* processes starting at any time, as the workers of one server do
SpecWorkers == InitBoot /\ [][NextWorkers]_vars

----------------------------------------------------------------------------
(* Requests to POST /api/diagnose by a logged-in user.                     *)

AllFields ==
  [k \in {"voltage", "current", "temperature", "vibration", "power_factor"} |->
     CASE k = "voltage" -> Number(2315)
       [] k = "current" -> Number(480)
       [] k = "temperature" -> Number(650)
       [] k = "vibration" -> Number(42)
       [] OTHER -> Number(8)]

Without(data, key) == [k \in DOMAIN data \ {key} |-> data[k]]

NoField == [k \in {} |-> Null]

\* JSON bodies: complete; empty; one field left out; a numeric string; a
\* string that is no number; null; NaN
ApiRequests ==
  {AllFields, NoField, Without(AllFields, "vibration"),
   [AllFields EXCEPT !["current"] = String(<<"5", "0", ".", "5">>)],
   [AllFields EXCEPT !["voltage"] = String(<<"a", "b", "c">>)],
   [AllFields EXCEPT !["temperature"] = Null],
   [AllFields EXCEPT !["power_factor"] = String(<<"n", "a", "n">>)]}

\* what the classifier can answer: a class (4 is a class outside the
\* tables, which a classifier loaded from a file can have) and the
\* probability of that class
Predictions == 0..4
Probabilities == {87656, 100000}

Libraries ==
  [prediction : Predictions, probability : Probabilities, nan_raises : BOOLEAN]

InitApi ==
  RulesIdle /\ PowerIdle /\ BootIdle(NoFiles) /\ ApiIdle /\ AuthIdle(<< >>, {})

ApiDiagnose(data, library) ==
  LET out == api_diagnose(data, library)
  IN  /\ api_calls < MaxApiCalls
      /\ api_calls' = api_calls + 1
      /\ api_request' = data
      /\ api_response' = [code |-> out.code, body |-> out.body]
      /\ diagnoses' = diagnoses \o out.rows
      /\ reports' = reports \o out.mails
      /\ api_reached' = [transformed |-> out.transformed, predicted |-> out.predicted,
                          stored |-> Len(out.rows), mailed |-> Len(out.mails),
                          prediction |-> out.prediction, probability |-> out.probability]
      /\ UNCHANGED exceptApi

NextApi == \E data \in ApiRequests, library \in Libraries : ApiDiagnose(data, library)

SpecApi == InitApi /\ [][NextApi]_vars

----------------------------------------------------------------------------
(* Requests to the account routes by one client.                           *)

Secret1 == <<"s", "e", "c", "r", "e", "t">>
Secret2 == <<"h", "u", "n", "t", "e", "r", "2">>
Short == <<"a", "b", "c">>

Ann == "ann@example.com"
Bob == "bob@example.com"

RegisterData(email, username, password, password_confirm, mail_ok) ==
  [email |-> email, username |-> username, password |-> password,
   password_confirm |-> password_confirm, mail_ok |-> mail_ok]

RegisterRequests ==
  {RegisterData(Ann, "ann", Secret1, Secret1, TRUE),
   RegisterData(Ann, "ann", Secret1, Secret1, FALSE),
   RegisterData(" ann@example.com ", "ann", Secret2, Secret2, TRUE),
   RegisterData(Bob, "bob", Secret1, Secret1, TRUE),
   RegisterData(Bob, "bob", Short, Short, TRUE),
   RegisterData(Bob, "bob", Secret1, Secret2, TRUE),
   RegisterData(Bob, "   ", Secret1, Secret1, TRUE)}

LoginRequests ==
  [email : {Ann, Bob}, password : {Secret1, Secret2}]
    \cup {[email |-> "   ", password |-> Secret1]}

ForgotRequests ==
  {[email |-> Ann, mail_ok |-> TRUE], [email |-> Ann, mail_ok |-> FALSE],
   [email |-> Bob, mail_ok |-> TRUE], [email |-> "   ", mail_ok |-> TRUE]}

ResetRequests == {[password |-> Secret2], [password |-> Short]}

\* a token nobody signed
ForgedToken == [salt |-> ACTIVATION_SALT, user_id |-> 1, issued |-> 0, signed |-> FALSE]

\* the tokens a request can carry: those handed out and a forged one
PresentedTokens == tokens \cup {ForgedToken}

\* what the database can hold when the server starts: nothing, or Ann's
\* account, activated or not
AnnRow(is_activated) ==
  [email |-> Ann, username |-> "ann",
   password_hash |-> generate_password_hash(Secret1), is_activated |-> is_activated]

InitAuth ==
  /\ RulesIdle /\ PowerIdle /\ BootIdle(NoFiles) /\ ApiIdle
  /\ \/ AuthIdle(<< >>, {})
     \/ AuthIdle(<<AnnRow(0)>>, {serializer_dumps(1, ACTIVATION_SALT, 0)})
     \/ AuthIdle(<<AnnRow(1)>>, {})

\* the effect of a handled request on the state
Handle(request, out) ==
  /\ auth_calls < MaxAuthCalls
  /\ auth_calls' = auth_calls + 1
  /\ auth_request' = request
  /\ auth_response' = out.response
  /\ users' = out.users
  /\ session' = out.session
  /\ tokens' = tokens \cup out.issued
  /\ forgot_responses' =
       IF request.op = "forgot_password" /\ strip(request.data.email) # ""
         THEN forgot_responses \cup {out.response}
         ELSE forgot_responses
  /\ UNCHANGED now
  /\ UNCHANGED exceptAuth

Register(data) ==
  Handle([op |-> "register", data |-> data, token |-> NoToken],
         register(users, session, data, now))

Login(data) ==
  Handle([op |-> "login", data |-> data, token |-> NoToken],
         login(users, session, data, now))

Activate(token) ==
  Handle([op |-> "activate_account", data |-> << >>, token |-> token],
         activate_account(users, session, token, now))

Logout ==
  Handle([op |-> "logout", data |-> << >>, token |-> NoToken],
         logout(users, session, now))

ForgotPassword(data) ==
  Handle([op |-> "forgot_password", data |-> data, token |-> NoToken],
         forgot_password(users, session, data, now))

ResetPassword(token, data) ==
  Handle([op |-> "reset_password", data |-> data, token |-> token],
         reset_password(users, session, token, data, now))

\* time passes: a day, or a day and an hour
Tick ==
  /\ \E hours \in {MAX_AGE, MAX_AGE + 1} :
       /\ now + hours <= MaxClock
       /\ now' = now + hours
  /\ UNCHANGED <<users, tokens, session, auth_request, auth_response,
                 forgot_responses, auth_calls>>
  /\ UNCHANGED exceptAuth

NextAuth ==
  \/ \E data \in RegisterRequests : Register(data)
  \/ \E data \in LoginRequests : Login(data)
  \/ \E token \in PresentedTokens : Activate(token)
  \/ Logout
  \/ \E data \in ForgotRequests : ForgotPassword(data)
  \/ \E token \in PresentedTokens, data \in ResetRequests : ResetPassword(token, data)
  \/ Tick

SpecAuth == InitAuth /\ [][NextAuth]_vars

----------------------------------------------------------------------------
(* The documented behaviour, stated over the outcome of a diagnose call.   *)
(* Under Spec the variable reading is the reading of that call.  The       *)
(* documented conditions are written here in exact integer arithmetic.     *)

Diagnosed == result.outcome # "none"
Returned == result.outcome = "return"

Abs(n) == IF n < 0 THEN -n ELSE n

PhaseSum(r) == r.phase_a + r.phase_b + r.phase_c

\* three times the largest |phase - avg|, avg being PhaseSum / 3
MaxDeviation3(r) ==
  Max(Max(Abs(3 * r.phase_a - PhaseSum(r)), Abs(3 * r.phase_b - PhaseSum(r))),
      Abs(3 * r.phase_c - PhaseSum(r)))

\* the largest relative deviation from the average, as a percentage, is
\* strictly greater than 5 / is at most 5 / is exactly 5
ExceedsFivePercent(r) == MaxDeviation3(r) * 100 > 5 * Abs(PhaseSum(r))
WithinFivePercent(r) == MaxDeviation3(r) * 100 <= 5 * Abs(PhaseSum(r))
ExactlyFivePercent(r) ==
  PhaseSum(r) # 0 /\ MaxDeviation3(r) * 100 = 5 * Abs(PhaseSum(r))

\* the documented trigger of each threshold check, and what it reports
VoltagePart(r) ==
  IF r.voltage > 250 THEN <<"Overvoltage">>
  ELSE IF r.voltage < 200 THEN <<"Undervoltage">>
  ELSE <<>>
CurrentPart(r) == IF r.current > 30 THEN <<"Overcurrent">> ELSE <<>>
FrequencyPart(r) ==
  IF r.frequency < 48 \/ r.frequency > 52
    THEN <<"Harmonic Distortion">> ELSE <<>>
PowerFactorPart(r) ==
  IF r.power_factor < 85 THEN <<"Low Power Factor">> ELSE <<>>
TemperaturePart(r) == IF r.temperature > 80 THEN <<"Overcurrent">> ELSE <<>>

\* the documented nominal reading, boundary values included
Nominal(r) ==
  /\ 200 <= r.voltage /\ r.voltage <= 250
  /\ r.current <= 30
  /\ 48 <= r.frequency /\ r.frequency <= 52
  /\ r.power_factor >= 85
  /\ WithinFivePercent(r)
  /\ r.temperature <= 80

\* C1: every nominal reading (each limit included, every phase within 5% of
\* the three-phase average) is diagnosed as primary_fault "No Fault",
\* severity "None", all_faults [].
C1_NominalIsNoFault ==
  (Diagnosed /\ Nominal(reading)) =>
    /\ Returned
    /\ result.primary_fault = "No Fault"
    /\ result.severity = "None"
    /\ result.all_faults = <<>>

\* a nominal reading with a phase exactly 5% off the average, reported as
\* Phase Imbalance
C1_NominalReportedFaulty ==
  /\ Returned /\ Nominal(reading)
  /\ reading.voltage = 250 /\ reading.current = 30 /\ reading.temperature = 80
  /\ <<reading.phase_a, reading.phase_b, reading.phase_c>> = <<238, 221, 221>>
  /\ result.primary_fault = "Phase Imbalance"
  /\ result.severity = "Medium"

\* the documented table scan: the first triggered fault found in the
\* priority table decides, "Medium" when none is in it
PriorityTable(f) ==
  CASE f = "Short Circuit" -> "Critical"
    [] f = "Ground Fault" -> "Critical"
    [] f = "Overcurrent" -> "High"
    [] f = "Overvoltage" -> "High"
    [] f = "Phase Imbalance" -> "Medium"
    [] f = "Low Power Factor" -> "Low"
    [] OTHER -> "absent"

RECURSIVE PriorityScan(_)
PriorityScan(faults) ==
  IF faults = <<>> THEN "Medium"
  ELSE IF PriorityTable(Head(faults)) # "absent"
    THEN PriorityTable(Head(faults))
    ELSE PriorityScan(Tail(faults))

Distinct(faults) == Cardinality(Range(faults))

\* C2 as documented: severity is "Critical" whenever three or more distinct
\* classifications are triggered; with fewer than three distinct ones it is
\* the result of the table scan, which is not "Critical".
C2_CriticalIffThreeDistinct ==
  (Returned /\ result.all_faults # <<>>) =>
    IF Distinct(result.all_faults) >= 3
      THEN result.severity = "Critical"
      ELSE /\ result.severity = PriorityScan(result.all_faults)
           /\ result.severity # "Critical"

\* C2: severity is "Critical" whenever three or more checks trigger, that
\* is whenever all_faults has three or more entries, equal entries counted
\* one by one; with fewer than three entries it is the result of the table
\* scan, which is not "Critical".
C2_CriticalIffThreeEntries ==
  (Returned /\ result.all_faults # <<>>) =>
    IF Len(result.all_faults) >= 3
      THEN result.severity = "Critical"
      ELSE /\ result.severity = PriorityScan(result.all_faults)
           /\ result.severity # "Critical"

\* three checks trigger with two distinct classifications: the current and
\* the temperature check both report Overcurrent
C2_ThreeEntriesTwoDistinct ==
  /\ Returned
  /\ result.all_faults = <<"Overcurrent", "Low Power Factor", "Overcurrent">>
  /\ result.severity = "Critical"

\* C3: all_faults lists the triggered faults in the order voltage, current,
\* frequency, power factor, phase imbalance, temperature; primary_fault is
\* its first element, and "No Fault" exactly when it is empty.  The phase
\* entry is present above 5% and absent below 5%.
C3_OrderAndPrimary ==
  Returned =>
    /\ \E phase \in {<<>>, <<"Phase Imbalance">>} :
         /\ result.all_faults =
              VoltagePart(reading) \o CurrentPart(reading)
                \o FrequencyPart(reading) \o PowerFactorPart(reading)
                \o phase \o TemperaturePart(reading)
         /\ ExceedsFivePercent(reading) /\ PhaseSum(reading) # 0
              => phase # <<>>
         /\ WithinFivePercent(reading) /\ ~ExactlyFivePercent(reading)
              => phase = <<>>
    /\ result.all_faults # <<>> => result.primary_fault = result.all_faults[1]
    /\ result.all_faults = <<>> <=> result.primary_fault = "No Fault"

\* all six checks trigger
C3_AllSixInOrder ==
  /\ Returned
  /\ result.all_faults =
       <<"Undervoltage", "Overcurrent", "Harmonic Distortion",
         "Low Power Factor", "Phase Imbalance", "Overcurrent">>
  /\ result.primary_fault = "Undervoltage"

\* C4: with one or two triggered faults, severity is the table value of the
\* first element of all_faults that is in the priority table, "Medium" when
\* none is; ["Overvoltage"] gives "High", ["Undervoltage", "Low Power
\* Factor"] gives "Low".
C4_SeverityByTableScan ==
  Returned =>
    /\ Len(result.all_faults) \in {1, 2}
         => result.severity = PriorityScan(result.all_faults)
    /\ result.all_faults = <<"Overvoltage">> => result.severity = "High"
    /\ result.all_faults = <<"Undervoltage", "Low Power Factor">>
         => result.severity = "Low"
    /\ ( /\ result.all_faults # <<>>
         /\ Range(result.all_faults)
              \subseteq {"Undervoltage", "Harmonic Distortion"} )
         => result.severity = "Medium"

\* the scan passes over a first element that is not in the table
C4_SecondEntryDecides ==
  /\ Returned
  /\ result.all_faults = <<"Undervoltage", "Low Power Factor">>
  /\ result.severity = "Low"

\* the documented confidence of a reading, power factor in hundredths
ConfidenceOf(r) ==
  Max(0, Min(100,
    100 - (IF r.voltage > 375 \/ r.voltage < 100 THEN 10 ELSE 0)
        - (IF r.current > 45 THEN 10 ELSE 0)
        - (IF r.power_factor < 70 THEN 15 ELSE 0)))

\* C5: confidence is 100 minus 10 for voltage > 375 or < 100, minus 10 for
\* current > 45, minus 15 for power_factor < 0.7, clamped to [0, 100]; it
\* depends on nothing else, is 100 for voltage 260 or current 35 with no
\* extreme value, and is one of 100, 90, 85, 80, 75, 65.
C5_ConfidenceFormula ==
  Returned =>
    /\ result.confidence = ConfidenceOf(reading)
    /\ result.confidence \in {100, 90, 85, 80, 75, 65}
    /\ ( /\ reading.voltage = 260 \/ reading.current = 35
         /\ 100 <= reading.voltage /\ reading.voltage <= 375
         /\ reading.current <= 45
         /\ reading.power_factor >= 70 )
         => result.confidence = 100

\* current 35 triggers the current check and deducts nothing
C5_FaultWithFullConfidence ==
  /\ Returned
  /\ reading.current = 35 /\ reading.voltage = 260
  /\ reading.power_factor = 70
  /\ Len(result.all_faults) >= 3
  /\ result.confidence = 100

\* C6: with a non-zero average, Phase Imbalance is in all_faults if and only
\* if the largest relative deviation of a phase from the average, as a
\* percentage, is strictly greater than 5, whatever the other fields are;
\* phases 200/230/260 yield it, and exactly 5% does not.
C6_ImbalanceIffAboveFive ==
  (Returned /\ PhaseSum(reading) # 0) =>
    /\ "Phase Imbalance" \in Range(result.all_faults)
         <=> ExceedsFivePercent(reading)
    /\ <<reading.phase_a, reading.phase_b, reading.phase_c>> = <<200, 230, 260>>
         => "Phase Imbalance" \in Range(result.all_faults)

\* a largest deviation of exactly 5% reported as Phase Imbalance
C6_ExactlyFiveFires ==
  /\ Returned
  /\ ExactlyFivePercent(reading)
  /\ "Phase Imbalance" \in Range(result.all_faults)

\* C7: diagnose raises for no reading; when the three phase voltages
\* average exactly 0 (0/0/0, 100/-100/0) the phase check is skipped: no
\* Phase Imbalance is reported and all_faults is what the other five checks
\* report.
C7_NeverRaises ==
  Diagnosed =>
    /\ Returned
    /\ PhaseSum(reading) = 0 =>
         /\ "Phase Imbalance" \notin Range(result.all_faults)
         /\ result.all_faults =
              VoltagePart(reading) \o CurrentPart(reading)
                \o FrequencyPart(reading) \o PowerFactorPart(reading)
                \o TemperaturePart(reading)

\* phases 100/-100/0 average 0 and are far apart; the other checks report
C7_ZeroAverageDiagnosed ==
  /\ Returned
  /\ <<reading.phase_a, reading.phase_b, reading.phase_c>> = <<100, -100, 0>>
  /\ result.all_faults = <<"Overvoltage", "Overcurrent">>

\* the label each check's detail string starts with, in check order, and
\* the classifications the check can report
CheckLabels ==
  <<"Voltage", "Current", "Frequency", "Power Factor",
    "Phase Imbalance detected", "Temperature">>

CheckIndex(detail) == CHOOSE i \in 1..Len(CheckLabels) : CheckLabels[i] = detail[1]

ReportsOf(i) ==
  CASE i = 1 -> {"Overvoltage", "Undervoltage"}
    [] i = 2 -> {"Overcurrent"}
    [] i = 3 -> {"Harmonic Distortion"}
    [] i = 4 -> {"Low Power Factor"}
    [] i = 5 -> {"Phase Imbalance"}
    [] i = 6 -> {"Overcurrent"}

\* the checks whose detail string is in details
Detailed(details) == { CheckIndex(details[i]) : i \in 1..Len(details) }

\* C8: every check adds at most one entry to all_faults and, with it, one
\* string to details, so len(all_faults) = len(details) = the number of
\* triggered checks <= 6; the temperature check (temperature > 80) adds
\* Overcurrent, as the current check (current > 30) does.
C8_OneEntryPerTriggeredCheck ==
  Returned =>
    /\ Len(result.all_faults) = Len(result.details)
    /\ Len(result.details) <= 6
    /\ \A i \in 1..Len(result.details) :
         /\ result.details[i][1] \in Range(CheckLabels)
         /\ result.all_faults[i] \in ReportsOf(CheckIndex(result.details[i]))
         /\ \A j \in 1..Len(result.details) :
              i < j => CheckIndex(result.details[i]) < CheckIndex(result.details[j])
    /\ 1 \in Detailed(result.details) <=> VoltagePart(reading) # <<>>
    /\ 2 \in Detailed(result.details) <=> reading.current > 30
    /\ 3 \in Detailed(result.details) <=> FrequencyPart(reading) # <<>>
    /\ 4 \in Detailed(result.details) <=> PowerFactorPart(reading) # <<>>
    /\ 5 \in Detailed(result.details)
         <=> "Phase Imbalance" \in Range(result.all_faults)
    /\ 6 \in Detailed(result.details) <=> reading.temperature > 80
    /\ reading.temperature > 80
         => result.all_faults[Len(result.all_faults)] = "Overcurrent"

\* the current and the temperature check both trigger, and nothing else
C8_OvercurrentTwice ==
  /\ Returned
  /\ reading.current > 30 /\ reading.temperature > 80
  /\ result.all_faults = <<"Overcurrent", "Overcurrent">>
  /\ Len(result.details) = 2
  /\ result.details[1][1] = "Current" /\ result.details[2][1] = "Temperature"

----------------------------------------------------------------------------
(* The documented behaviour over sequences of calls (SpecCalls).           *)

\* the ten fault classifications
Classifications ==
  { "Short Circuit", "Open Circuit", "Ground Fault", "Phase Imbalance",
    "Overvoltage", "Undervoltage", "Overcurrent", "Harmonic Distortion",
    "Low Power Factor", "No Fault" }

Calls == 1..Len(history)

\* C9: the action is a function of primary_fault alone, a one-to-one table
\* over the ten classifications: different primary faults never get the
\* same action, "No Fault" gets "System operating normally.", and a fault
\* that is not in the table gets "Perform maintenance inspection."
C9_ActionByPrimaryFault ==
  /\ fault_arg \in Classifications =>
       \A other \in Classifications \ {fault_arg} :
         _recommend_action(other) # action_ret
  /\ fault_arg = "No Fault" => action_ret = "System operating normally."
  /\ (fault_arg # PyNone /\ fault_arg \notin Classifications)
       => action_ret = "Perform maintenance inspection."
  /\ \A i \in Calls :
       /\ history[i][2].outcome = "return"
       /\ history[i][2].primary_fault \in Classifications
       /\ history[i][2].primary_fault = "No Fault"
            => history[i][2].action = "System operating normally."
       /\ \A j \in Calls :
            history[i][2].primary_fault = history[j][2].primary_fault
              <=> history[i][2].action = history[j][2].action
       /\ fault_arg = history[i][2].primary_fault
            => action_ret = history[i][2].action

\* a fault outside the table has been looked up, and two calls have
\* returned different primary faults
C9_FallbackAndTwoFaults ==
  /\ fault_arg = "Overheat"
  /\ action_ret = "Perform maintenance inspection."
  /\ Len(history) >= 2
  /\ history[1][2].primary_fault = "No Fault"
  /\ history[2][2].primary_fault = "Overvoltage"

\* C10: any sequence of diagnose calls on one instance leaves
\* fault_history and threshold_violations empty and every reading as it was
\* passed, and calls with equal readings return equal results whatever was
\* called in between.
C10_PureAndDeterministic ==
  /\ fd.fault_history = <<>>
  /\ fd.threshold_violations = <<>>
  /\ \A i \in Calls :
       /\ history[i][3] = history[i][1]
       /\ \A j \in Calls :
            history[i][1] = history[j][1] => history[i][2] = history[j][2]

\* the same reading diagnosed twice with another reading in between
C10_SameReadingAgain ==
  /\ Len(history) = 3
  /\ history[1][1] = history[3][1]
  /\ history[2][1] # history[1][1]
  /\ history[1][2].all_faults # history[2][2].all_faults
  /\ history[3][2] = history[1][2]

----------------------------------------------------------------------------
(* Further documented behaviour of one diagnose call (Spec).               *)

\* C18: all_faults holds only Overvoltage, Undervoltage, Overcurrent,
\* Harmonic Distortion, Low Power Factor and Phase Imbalance (never Short
\* Circuit, Ground Fault, Open Circuit or "No Fault"), never Overvoltage
\* together with Undervoltage, and severity is "None" exactly when
\* all_faults is empty, exactly when primary_fault is "No Fault".
C18_ReportedClassifications ==
  Returned =>
    /\ Range(result.all_faults) \subseteq
         { "Overvoltage", "Undervoltage", "Overcurrent",
           "Harmonic Distortion", "Low Power Factor", "Phase Imbalance" }
    /\ ~ ( /\ "Overvoltage" \in Range(result.all_faults)
           /\ "Undervoltage" \in Range(result.all_faults) )
    /\ result.severity = "None" <=> result.all_faults = <<>>
    /\ result.all_faults = <<>> <=> result.primary_fault = "No Fault"

\* a current far above the limit, with four other checks triggered
C18_FiveClassifications ==
  /\ Returned
  /\ reading.current * 2 > 90
  /\ Range(result.all_faults) =
       { "Overvoltage", "Overcurrent", "Harmonic Distortion",
         "Low Power Factor", "Phase Imbalance" }
  /\ result.severity # "None"
  /\ result.primary_fault # "No Fault"

----------------------------------------------------------------------------
(* The documented behaviour of the power utilities (SpecPower).            *)

\* C17: the power utilities are pure: calculate_apparent_power(V, I) is
\* V*I (2300 for 230, 10), calculate_power(V, I, pf) is V*I*pf, and
\* calculate_reactive_power(V, I, pf) is V*I*sqrt(1 - pf^2), which is 0 at
\* pf = 1.0 and which raises instead of returning a number when pf^2 > 1.
\* The square root is stated by its square, in ten-thousandths.
C17_PowerUtilities ==
  /\ fd = NewFaultDiagnosis
  /\ power_call # <<>> =>
       LET v == power_call[2]
           i == power_call[3]
       IN  /\ power_call[1] = "calculate_apparent_power" =>
                /\ power_ret.exception = PyNone
                /\ power_ret.value = v * i
                /\ (v = 230 /\ i = 10) => power_ret.value = 2300
           /\ power_call[1] = "calculate_power" =>
                /\ power_ret.exception = PyNone
                /\ power_ret.value = v * i * power_call[4]
           /\ power_call[1] = "calculate_reactive_power" =>
                IF power_call[4] * power_call[4] > 100 * 100
                  THEN power_ret.exception # PyNone
                  ELSE /\ power_ret.exception = PyNone
                       /\ \E sin_phi \in 0..100 :
                            /\ sin_phi * sin_phi
                                 = 100 * 100 - power_call[4] * power_call[4]
                            /\ power_ret.value = v * i * sin_phi
                       /\ power_call[4] = 100 => power_ret.value = 0

\* reactive power at power factor 0.6: 2300 * 0.8 = 1840.00
C17_ReactiveAtSixTenths ==
  /\ power_call = <<"calculate_reactive_power", 230, 10, 60>>
  /\ power_ret = [exception |-> PyNone, value |-> 184000]

----------------------------------------------------------------------------
(* Model initialization at process start (SpecStartup, SpecWorkers).       *)

SawBoth(p) == proc[p].saw_model = "yes" /\ proc[p].saw_scaler = "yes"

Checked(p) ==
  \/ proc[p].saw_model = "no"
  \/ proc[p].saw_model = "yes" /\ proc[p].saw_scaler # "unchecked"

InitializedOnce ==
  \A p \in Procs :
    /\ proc[p].trained <= 1
    /\ (Checked(p) /\ SawBoth(p)) =>
         /\ proc[p].trained = 0 /\ proc[p].wrote = {}
         /\ pc[p] \in {"load_model", "load_scaler", "serving", "failed", "not_started"}
         /\ pc[p] = "serving" => proc[p].model = "loaded" /\ proc[p].scaler = "loaded"
    /\ (Checked(p) /\ ~SawBoth(p) /\ pc[p] \in {"serving", "not_started"}) =>
         /\ proc[p].trained = 1 /\ proc[p].wrote = Paths
         /\ proc[p].model = "trained" /\ proc[p].scaler = "trained"
         /\ \A path \in Paths : files[path] = "valid"

WrittenAtMostOnce ==
  /\ trainings <= 1
  /\ \A path \in Paths : writes[path] <= 1
  /\ trainings = 1 /\ (\A p \in Procs : ~Initializing(p)) =>
       \A path \in Paths : files[path] = "valid"

RequestsLeaveModelAlone ==
  requests' # requests => UNCHANGED <<files, writing, trainings, writes, proc>>

FoundCorrupt(p) == \E path \in Paths : proc[p].at_start[path] = "corrupt"

\* C12: a process that starts while a persisted file is present but
\* corrupt never trains, never writes a file and never serves, whichever
\* of the two files it is and whether or not the other one is there.
C12_CorruptIsFatal ==
  \A p \in Procs :
    FoundCorrupt(p) =>
      /\ proc[p].trained = 0
      /\ proc[p].wrote = {}
      /\ pc[p] # "serving"

\* started with a corrupt classifier and no scaler, the process trained,
\* replaced both files and serves
C12_CorruptOverwritten ==
  \E p \in Procs :
    /\ proc[p].at_start = [path \in Paths |->
                             IF path = MODEL_PATH THEN "corrupt" ELSE "absent"]
    /\ pc[p] = "serving"
    /\ proc[p].trained = 1 /\ proc[p].wrote = Paths
    /\ \A path \in Paths : files[path] = "valid"

\* files are never removed, so a process that found none at its start
\* shows that none was persisted when the first process started
NothingPersistedAtFirst == \E p \in Procs : proc[p].at_start = NoFiles

SawOnlyOne(p) == proc[p].saw_model = "yes" /\ proc[p].saw_scaler = "no"

\* C16: with processes initializing at the same time and nothing persisted
\* at first, at most one training happens, no file has two writers at a
\* time, and no process finds the classifier file without the scaler file.
C16_InitSerialized ==
  NothingPersistedAtFirst =>
    /\ trainings <= 1
    /\ \A path \in Paths : Cardinality(writing[path]) <= 1
    /\ \A p \in Procs : ~SawOnlyOne(p)

\* two processes found no classifier file, both trained, and both are
\* writing fault_model.pkl
C16_TwoWriters ==
  /\ NothingPersistedAtFirst
  /\ trainings = 2
  /\ writing[MODEL_PATH] = {1, 2}
  /\ \A p \in {1, 2} : proc[p].saw_model = "no" /\ proc[p].trained = 1

----------------------------------------------------------------------------
(* The documented behaviour of POST /api/diagnose (SpecApi).               *)

Requested == api_calls > 0

\* the value sent for a field is a finite real number, as a JSON number or
\* as a decimal string
FiniteReal(x) ==
  \/ x.type = "number" /\ ~x.float.nan
  \/ /\ x.type = "string" /\ x.chars # <<>>
     /\ LET digits == IF Head(x.chars) = "-" THEN Tail(x.chars) ELSE x.chars
        IN  /\ \E k \in 1..Len(digits) : IsDigit(digits[k])
            /\ \A k \in 1..Len(digits) : IsDigit(digits[k]) \/ digits[k] = "."
            /\ Cardinality({k \in 1..Len(digits) : digits[k] = "."}) <= 1

InvalidInput(data) ==
  \E k \in 1..5 : Fields[k] \notin DOMAIN data \/ ~FiniteReal(data[Fields[k]])

Rejected ==
  /\ api_response.code = 400 /\ api_response.body.status = "error"
  /\ ~api_reached.transformed /\ ~api_reached.predicted
  /\ api_reached.stored = 0 /\ api_reached.mailed = 0

\* C13: a request in which one of the five fields is missing or is no
\* finite real number gets HTTP 400 before scaler.transform and
\* model.predict are called, and adds no row and sends no email.
C13_InvalidInputRejected == (Requested /\ InvalidInput(api_request)) => Rejected

\* an empty JSON body was diagnosed with the five default values: 200, a
\* row and an email
C13_DefaultsDiagnosed ==
  /\ Requested /\ api_request = NoField
  /\ api_response.code = 200
  /\ api_reached.stored = 1 /\ api_reached.mailed = 1
  /\ diagnoses[Len(diagnoses)].sensor_readings =
       <<Float(2300), Float(500), Float(600), Float(50), Float(9)>>

Succeeded == Requested /\ api_response.code = 200

FaultName(c) ==
  CASE c = 0 -> "Normal Operation" [] c = 1 -> "Overheat"
    [] c = 2 -> "Overload" [] c = 3 -> "Short Circuit"

Advice(c) ==
  CASE c = 0 -> "System operating normally. Continue monitoring."
    [] c = 1 -> "Reduce load or improve cooling. Check ventilation."
    [] c = 2 -> "Reduce load immediately. Inspect circuit breaker."
    [] c = 3 -> "EMERGENCY: Shut down immediately. Check for faults."

\* x (a percentage, in units of 0.00001) is probability * 100 to two
\* decimals
PercentOf(x, probability) ==
  /\ x % 1000 = 0
  /\ Abs(x - probability * 100) <= 500
  /\ 0 <= x /\ x <= 100 * 100000

\* C14: after a successful diagnosis the class the classifier answered is
\* one of 0..3, the response's fault_type and recommendation are the table
\* entries of that class, and its confidence is the class's probability as
\* a percentage between 0 and 100, to two decimals.
C14_ResultFromTables ==
  Succeeded =>
    /\ api_reached.prediction \in 0..3
    /\ api_response.body.fault_type = FaultName(api_reached.prediction)
    /\ api_response.body.recommendation = Advice(api_reached.prediction)
    /\ PercentOf(api_response.body.confidence, api_reached.probability)

\* class 3 with probability 0.87656 is reported as Short Circuit, 87.66
C14_ShortCircuitReported ==
  /\ Succeeded
  /\ api_reached.prediction = 3 /\ api_reached.probability = 87656
  /\ api_response.body.fault_type = "Short Circuit"
  /\ api_response.body.confidence = 8766000

LastRow == diagnoses[Len(diagnoses)]
LastReport == reports[Len(reports)]

Result(r) ==
  [fault_type |-> r.fault_type, recommendation |-> r.recommendation,
   confidence |-> r.confidence]

\* C15: after a successful diagnosis the row added to table diagnoses, the
\* report email and the HTTP response carry the same fault_type, the same
\* recommendation and the same confidence number.
C15_SameResultEverywhere ==
  Succeeded =>
    /\ api_reached.stored = 1 /\ api_reached.mailed = 1
    /\ Result(LastRow) = Result(api_response.body)
    /\ Result(LastReport) = Result(api_response.body)

\* the row holds the probability 0.87656 where the email and the response
\* hold the percentage 87.66
C15_RowHoldsProbability ==
  /\ Succeeded
  /\ LastRow.confidence = 87656
  /\ LastReport.confidence = 8766000
  /\ api_response.body.confidence = 8766000
  /\ LastRow.fault_type = api_response.body.fault_type
  /\ LastRow.recommendation = LastReport.recommendation

----------------------------------------------------------------------------
(* The documented behaviour of the account routes (SpecAuth).              *)

Registered(email) == \E id \in 1..Len(users) : users[id].email = email

\* C19: all responses of POST /forgot-password to a non-empty email are the
\* same response (status code, status field and message), whether or not
\* the email is registered and whether or not the reset email was sent.
C19_ForgotPasswordUniform == Cardinality(forgot_responses) <= 1

\* asked for a registered and for an unregistered email, the route has
\* given two different messages
C19_TwoMessages ==
  /\ auth_request.op = "forgot_password"
  /\ Registered(strip(auth_request.data.email))
  /\ auth_response.message =
       "If an account exists with this email, check your inbox for a password reset link."
  /\ Response(200, "success",
              "If an account exists with this email, a reset link has been sent")
       \in forgot_responses

Activated(rows, id) == id \in 1..Len(rows) /\ rows[id].is_activated = 1

\* the account the credentials of a login request belong to, 0 for none
AccountOf(rows, data) ==
  IF \E id \in 1..Len(rows) :
       /\ rows[id].email = strip(data.email)
       /\ rows[id].password_hash = <<"hash">> \o data.password
    THEN CHOOSE id \in 1..Len(rows) :
           /\ rows[id].email = strip(data.email)
           /\ rows[id].password_hash = <<"hash">> \o data.password
    ELSE 0

\* token is a signed activation token for user id, at most 24 hours old
ValidActivationToken(token, id) ==
  /\ token.signed /\ token.salt = "email-confirm-salt"
  /\ token.user_id = id
  /\ now - token.issued <= 24

SessionsAreActivated ==
  /\ session # 0 => Activated(users, session)
  /\ (auth_request.op = "login" /\ auth_response.code = 200) =>
       /\ session # 0 /\ session = AccountOf(users, auth_request.data)
       /\ Activated(users, session)

RequestHandled == auth_calls' = auth_calls + 1

\* a session begins only by a login with the credentials of an activated
\* account
LoginNeedsActivation ==
  (session = 0 /\ session' # 0) =>
    /\ auth_request'.op = "login" /\ auth_response'.code = 200
    /\ session' = AccountOf(users, auth_request'.data)
    /\ Activated(users, session')

\* correct credentials of an account that is not activated: 403, no session
NotActivatedIs403 ==
  (/\ RequestHandled /\ auth_request'.op = "login" /\ session = 0
   /\ AccountOf(users, auth_request'.data) # 0
   /\ ~Activated(users, AccountOf(users, auth_request'.data))) =>
    /\ auth_response'.code = 403
    /\ session' = 0

\* rows are added only by register, one at a time, not activated, for an
\* email that was not registered
RegisterCreatesInactive ==
  /\ Len(users') >= Len(users)
  /\ Len(users') > Len(users) =>
       /\ auth_request'.op = "register" /\ auth_response'.code = 201
       /\ Len(users') = Len(users) + 1
       /\ users'[Len(users')].is_activated = 0
       /\ users'[Len(users')].email = strip(auth_request'.data.email)
       /\ ~Registered(strip(auth_request'.data.email))
  /\ (RequestHandled /\ auth_request'.op = "register" /\ auth_response'.code = 201) =>
       Len(users') = Len(users) + 1

\* registering a registered email: 400, table unchanged
DuplicateEmailRejected ==
  (/\ RequestHandled /\ auth_request'.op = "register"
   /\ Registered(strip(auth_request'.data.email))) =>
    /\ auth_response'.code = 400
    /\ users' = users

\* the flag changes only from 0 to 1 and only by activate_account with a
\* valid token of that user, which always sets it
OnlyActivateActivates ==
  /\ \A id \in 1..Len(users) :
       /\ users'[id].email = users[id].email
       /\ users[id].is_activated = 1 => users'[id].is_activated = 1
       /\ (users[id].is_activated = 0 /\ users'[id].is_activated = 1) =>
            /\ auth_request'.op = "activate_account"
            /\ ValidActivationToken(auth_request'.token, id)
       /\ (/\ RequestHandled /\ auth_request'.op = "activate_account"
           /\ ValidActivationToken(auth_request'.token, id)) =>
            users'[id].is_activated = 1

\* C20: a session is established only by a login with the credentials of
\* an account whose is_activated is 1; register adds accounts with
\* is_activated 0; only activate_account with a signed activation token of
\* that user, at most 24 hours old, sets the flag; correct credentials of a
\* non-activated account get 403; registering a registered email gets 400
\* and leaves table users as it was.
C20_ActivationGatesLogin ==
  /\ []SessionsAreActivated
  /\ [][/\ LoginNeedsActivation
        /\ NotActivatedIs403
        /\ RegisterCreatesInactive
        /\ DuplicateEmailRejected
        /\ OnlyActivateActivates]_vars

\* Bob registered, activated with the token of the registration, and
\* logged in
C20_RegisteredActivatedLoggedIn ==
  /\ auth_request.op = "login" /\ auth_response.code = 200
  /\ session = 1 /\ users[1].email = Bob /\ users[1].is_activated = 1
  /\ serializer_dumps(1, ACTIVATION_SALT, 0) \in tokens

====
